---- MODULE Spec2Model ----
(***************************************************************************)
(* Model of server.js: the /api/rate handler with its process-wide cache   *)
(* (fredCache) and the /api/subscribe handler that reconciles a subscriber *)
(* against the Buttondown mailing-list API.                                *)
(*                                                                         *)
(* JavaScript values are tagged tuples so that values of different types   *)
(* can be compared.  Strings are sequences of symbols (a symbol is a       *)
(* character or an indivisible word), so that String.prototype.includes    *)
(* and parseFloat are computed, not assumed.  Numbers are integers in      *)
(* hundredths (6.45 is 645); time is in milliseconds.                      *)
(***************************************************************************)
EXTENDS Integers, Sequences, FiniteSets, TLC

VARIABLES env, now, fredCache, rateReqs, subscribers, subReqs, stalled

vars == <<env, now, fredCache, rateReqs, subscribers, subReqs, stalled>>

(* ------------------------------ bounds --------------------------------- *)
\* requests to /api/rate that arrive in one behaviour
MaxRateReqs == 2
\* requests to /api/subscribe that arrive in one behaviour
MaxSubReqs == 2
\* clock advances in one behaviour (each of half a TTL)
MaxTicks == 4
\* observations in one upstream response of the wide response set
MaxObs == 2

(* --------------------------- JavaScript values ------------------------- *)
Undefined == <<"undefined">>
Null == <<"null">>
Num(n) == <<"num", n>>
Str(s) == <<"str", s>>
Arr(a) == <<"arr", a>>
Obj(o) == <<"obj", o>>
NaN == <<"nan">>
Infinity == <<"inf">>
True == <<"true">>

IsStr(v) == v[1] = "str"
IsNum(v) == v[1] = "num"

\* JavaScript truthiness: undefined, null, "" , 0 and NaN are falsy
Truthy(v) == /\ v # Undefined
             /\ v # Null
             /\ v # NaN
             /\ v # Str(<<>>)
             /\ v # Num(0)

\* a || b
Or(a, b) == IF Truthy(a) THEN a ELSE b

\* Includes that looks for the first symbol of pat only
IncludesFirstSymbol(s, pat) == \E i \in 1..Len(s) : s[i] = pat[1]

\* String.prototype.includes on symbol sequences: pat occurs contiguously in s
Includes(s, pat) ==
    \E i \in 0..(Len(s) - Len(pat)) :
        \A j \in 1..Len(pat) : s[i + j] = pat[j]

(* ------------------------------ parseFloat ----------------------------- *)
Digits == {"0", "1", "2", "3", "4", "5", "6", "7", "8", "9"}

DigitVal(c) == CASE c = "0" -> 0 [] c = "1" -> 1 [] c = "2" -> 2 [] c = "3" -> 3
                 [] c = "4" -> 4 [] c = "5" -> 5 [] c = "6" -> 6 [] c = "7" -> 7
                 [] c = "8" -> 8 [] c = "9" -> 9

\* length of the longest run of digits of s that starts at position i
RECURSIVE DigitRun(_, _)
DigitRun(s, i) == IF i <= Len(s) /\ s[i] \in Digits THEN 1 + DigitRun(s, i + 1) ELSE 0

\* value of the digits s[i..i+n-1] read as a decimal integer
RECURSIVE IntOf(_, _, _)
IntOf(s, i, n) == IF n = 0 THEN 0 ELSE IntOf(s, i, n - 1) * 10 + DigitVal(s[i + n - 1])

RECURSIVE Pow10(_)
Pow10(n) == IF n = 0 THEN 1 ELSE 10 * Pow10(n - 1)

\* parseFloat(string): optional sign, then "Infinity" or digits with an
\* optional fraction; parsing stops at the first symbol that does not fit and
\* yields NaN when no digit was read.  The result is in hundredths; the value
\* strings of the model carry at most two fraction digits.
parseFloat(s) ==
    LET sgn == IF Len(s) >= 1 /\ s[1] = "-" THEN -1 ELSE 1
        p == IF Len(s) >= 1 /\ s[1] \in {"-", "+"} THEN 2 ELSE 1
        ni == DigitRun(s, p)
        dot == p + ni <= Len(s) /\ s[p + ni] = "."
        nf == IF dot THEN DigitRun(s, p + ni + 1) ELSE 0
        ip == IntOf(s, p, ni) * 100
        fp == (IntOf(s, p + ni + 1, nf) * 100) \div Pow10(nf)
    IN IF p <= Len(s) /\ s[p] = "Infinity" THEN Infinity
       ELSE IF ni + nf = 0 THEN NaN
       ELSE Num(sgn * (ip + fp))

\* IsFinite without the check
IsFiniteAlways(v) == TRUE

\* Number.isFinite
IsFinite(v) == IsNum(v)

\* x + c, x * c and x / c for a finite constant c > 0 (c in units, the sum's
\* c in hundredths): NaN and Infinity propagate
Plus(x, c) == IF IsNum(x) THEN Num(x[2] + c) ELSE x
Times(x, c) == IF IsNum(x) THEN Num(x[2] * c) ELSE x
Over(x, c) == IF IsNum(x) THEN Num(x[2] \div c) ELSE x

\* MathRound that rounds down
MathFloor(x) == IF IsNum(x) THEN Num((x[2] \div 100) * 100) ELSE x

\* Math.round on hundredths: nearest integer, ties towards +Infinity
MathRound(x) == IF IsNum(x) THEN Num(((x[2] + 50) \div 100) * 100) ELSE x

(* --------------------------- /api/rate: fetch -------------------------- *)
TTL == 60 * 60 * 1000

DefaultSeries == Str(<<"MORTGAGE30US">>)

FallbackQuote ==
    [ratePercent |-> Num(550), rawPercent |-> Null, adjustedAdded |-> Num(50),
     observationDate |-> Null, source |-> Str(<<"fallback">>)]

\* FindFirstValid that also skips a value parseFloat does not read as a
\* finite number
RECURSIVE FindFirstFinite(_, _)
FindFirstFinite(obs, i) ==
    IF i > Len(obs) THEN 0
    ELSE IF /\ Truthy(obs[i])
            /\ Truthy(obs[i][2].value)
            /\ obs[i][2].value # Str(<<".">>)
            /\ IsFinite(parseFloat(obs[i][2].value[2]))
         THEN i
         ELSE FindFirstFinite(obs, i + 1)

\* obs.find(o => o && o.value && o.value !== '.'): index of the first match, 0 if none
RECURSIVE FindFirstValid(_, _)
FindFirstValid(obs, i) ==
    IF i > Len(obs) THEN 0
    ELSE IF /\ Truthy(obs[i])
            /\ Truthy(obs[i][2].value)
            /\ obs[i][2].value # Str(<<".">>)
         THEN i
         ELSE FindFirstValid(obs, i + 1)

\* the quote built from a valid observation
QuoteOf(raw, date, seriesId) ==
    LET adjusted == Plus(raw, 50)
        rounded == Over(MathRound(Times(adjusted, 10)), 10)
    IN [ratePercent |-> rounded, rawPercent |-> raw, adjustedAdded |-> Num(50),
        observationDate |-> date, source |-> seriesId]

\* the part of fetchFredLatest after the fetch was issued: the value it
\* returns for the upstream response resp (Null stands for null)
FredResult(resp, seriesId) ==
    IF resp.kind = "throw" THEN Null
    ELSE IF ~resp.ok THEN Null
    ELSE IF ~resp.parses THEN Null
    ELSE LET data == resp.data
             observations == IF Truthy(data) THEN data[2].observations ELSE data
             obs == IF observations[1] = "arr" THEN observations[2] ELSE <<>>
             k == FindFirstValid(obs, 1)
         IN IF k = 0 THEN Null
            ELSE LET firstValid == obs[k][2]
                     raw == parseFloat(firstValid.value[2])
                 IN IF ~IsFinite(raw) THEN Null
                    ELSE Obj(QuoteOf(raw, firstValid.date, seriesId))

\* JSON.stringify of an object: members whose value is undefined are left
\* out, NaN and Infinity are written as null
JSONstringify(o) ==
    [k \in {f \in DOMAIN o : o[f] # Undefined} |->
        IF o[k] \in {NaN, Infinity} THEN Null ELSE o[k]]

(* ------------------------ upstream series responses -------------------- *)
Entry(value, date) == Obj([value |-> value, date |-> date])

Date1 == Str(<<"2024-01-04">>)
Date2 == Str(<<"2023-12-28">>)

ObsResp(obs) ==
    [kind |-> "http", ok |-> TRUE, parses |-> TRUE, data |-> Obj([observations |-> Arr(obs)])]

\* responses that carry no observation list
FailedResps ==
    { [kind |-> "throw", ok |-> FALSE, parses |-> FALSE, data |-> Undefined],
      [kind |-> "http", ok |-> FALSE, parses |-> FALSE, data |-> Undefined],
      [kind |-> "http", ok |-> TRUE, parses |-> FALSE, data |-> Undefined],
      [kind |-> "http", ok |-> TRUE, parses |-> TRUE, data |-> Null],
      [kind |-> "http", ok |-> TRUE, parses |-> TRUE, data |-> Obj([observations |-> Undefined])],
      [kind |-> "http", ok |-> TRUE, parses |-> TRUE,
       data |-> Obj([observations |-> Str(<<"none">>)])] }

\* value strings an observation may carry, each with the number JavaScript
\* reads from it (in hundredths; NaN and Infinity for the non-finite ones)
ValueTable ==
    { <<<<"6", ".", "4", "5">>, Num(645)>>,
      <<<<"6", ".", "4", "4">>, Num(644)>>,
      <<<<"7">>, Num(700)>>,
      <<<<"6", ".">>, Num(600)>>,
      <<<<".", "5">>, Num(50)>>,
      <<<<"-", "0", ".", "5", "5">>, Num(-55)>>,
      <<<<"-", "0", ".", "5", "6">>, Num(-56)>>,
      <<<<"6", ".", "5", "x">>, Num(650)>>,
      <<<<"x">>, NaN>>,
      <<<<"-", "Infinity">>, Infinity>> }

ValueStrings == {vt[1] : vt \in ValueTable}

WideEntries ==
    {Null, Entry(Undefined, Date1), Entry(Str(<<>>), Date1), Entry(Str(<<".">>), Date1),
     Entry(Str(<<"7">>), Undefined)}
    \cup {Entry(Str(v), Date2) : v \in ValueStrings}

RECURSIVE SeqsUpTo(_, _)
SeqsUpTo(S, n) ==
    IF n = 0 THEN {<<>>}
    ELSE LET shorter == SeqsUpTo(S, n - 1)
         IN shorter \cup {Append(q, x) : q \in {t \in shorter : Len(t) = n - 1}, x \in S}

WideResps == FailedResps \cup {ObsResp(obs) : obs \in SeqsUpTo(WideEntries, MaxObs)}

\* one response of each kind, with two different valid observations
NarrowResps ==
    { [kind |-> "throw", ok |-> FALSE, parses |-> FALSE, data |-> Undefined],
      [kind |-> "http", ok |-> FALSE, parses |-> FALSE, data |-> Undefined],
      ObsResp(<<Entry(Str(<<".">>), Date1)>>),
      ObsResp(<<Entry(Str(<<".">>), Date1), Entry(Str(<<"6", ".", "4", "5">>), Date2)>>),
      ObsResp(<<Entry(Str(<<"7">>), Date1)>>) }

(* ----------------------------- environment ----------------------------- *)
Key == Str(<<"secret">>)

EnvSet ==
    [FRED_API_KEY : {Undefined, Key},
     FRED_SERIES_ID : {Undefined, Str(<<"DGS10">>)},
     BUTTONDOWN_API_KEY : {Undefined, Key}]

(* --------------------------- /api/rate: handler ------------------------ *)
NoBody == Undefined

\* no upstream response was received
NoResp == [kind |-> "none", ok |-> FALSE, parses |-> FALSE, data |-> Undefined]

\* FredKeyMissing without the check
FredKeyNeverMissing(e) == FALSE

\* if (!key) return null
FredKeyMissing(e) == ~Truthy(e.FRED_API_KEY)

Json(o) == Obj(JSONstringify(o))

\* one request to /api/rate; seen is the value of fredCache that the handler
\* read on line 47 (Undefined when it returned before reading it)
RateReq(method, pc, t, status, cc, body, net, resp, seen) ==
    [method |-> method, pc |-> pc, now |-> t, status |-> status, cacheControl |-> cc,
     body |-> body, net |-> net, resp |-> resp, seen |-> seen]

\* CacheFresh with half the time-to-live
CacheFreshHalf(cache, t) == Truthy(cache) /\ 2 * (t - cache[2].ts) < TTL

\* CacheFresh without the check: no entry is ever fresh
CacheFreshNever(cache, t) == FALSE

\* fredCache && now - fredCache.ts < TTL
CacheFresh(cache, t) == Truthy(cache) /\ t - cache[2].ts < TTL

\* StoreQuote that keeps the entry in the cache when it is still fresh at the
\* write (the first writer wins)
StoreQuoteKeepFresh(cache, started, t, payload) ==
    IF Truthy(cache) /\ t - cache[2].ts < TTL THEN cache
    ELSE Obj([ts |-> started, payload |-> payload])

\* StoreQuote that stores real quotes only and leaves the cache as it is when
\* the quote is the fallback
StoreQuoteUnlessFallback(cache, started, t, payload) ==
    IF payload = FallbackQuote THEN cache
    ELSE Obj([ts |-> started, payload |-> payload])

\* StoreQuote that stamps the entry with the clock at the write
StoreQuoteStampedAtWrite(cache, started, t, payload) ==
    Obj([ts |-> t, payload |-> payload])

\* fredCache = { ts: now, payload }: the new entry is stamped with the `now`
\* the handler read when it started and replaces the entry wholesale; the
\* entry it replaces (cache) and the clock at the write (t) take no part
StoreQuote(cache, started, t, payload) == Obj([ts |-> started, payload |-> payload])

\* CanResume that runs the continuations in the order of arrival: a request
\* waits for the requests that arrived before it
CanResumeInOrder(reqs, i) ==
    /\ reqs[i].pc = "fetch"
    /\ \A j \in 1..(i - 1) : reqs[j].pc = "done"

\* the continuation after `await fetchFredLatest()` runs as soon as the
\* handler's own fetch has returned, whatever the other requests are doing
CanResume(reqs, i) == reqs[i].pc = "fetch"

\* handleRate from its entry to its first suspension (the await of a fetch
\* that was issued) or to its end.  When FRED_API_KEY is not set
\* fetchFredLatest returns without suspending on I/O, so the handler runs to
\* its end before any other request is served.
handleRate(method) ==
    /\ IF method = "OPTIONS"
       THEN /\ rateReqs' = Append(rateReqs,
                   RateReq(method, "done", now, 204, FALSE, NoBody, 0, NoResp,
                           Undefined))
            /\ UNCHANGED fredCache
       ELSE IF method # "GET"
       THEN /\ rateReqs' = Append(rateReqs,
                   RateReq(method, "done", now, 405, FALSE,
                           Json([error |-> Str(<<"Method not allowed">>)]), 0, NoResp,
                           Undefined))
            /\ UNCHANGED fredCache
       ELSE IF CacheFresh(fredCache, now)
       THEN /\ rateReqs' = Append(rateReqs,
                   RateReq(method, "done", now, 200, TRUE, Json(fredCache[2].payload), 0,
                           NoResp, fredCache))
            /\ UNCHANGED fredCache
       ELSE IF FredKeyMissing(env)
       THEN LET payload == FallbackQuote
            IN /\ fredCache' = StoreQuote(fredCache, now, now, payload)
               /\ rateReqs' = Append(rateReqs,
                      RateReq(method, "done", now, 200, TRUE, Json(payload), 0, NoResp,
                              fredCache))
       ELSE /\ rateReqs' = Append(rateReqs,
                   RateReq(method, "fetch", now, 0, FALSE, NoBody, 1, NoResp, fredCache))
            /\ UNCHANGED fredCache
    /\ UNCHANGED <<env, now, subscribers, subReqs, stalled>>

\* handleRate from the return of the awaited fetch to its end; the fetch of
\* the request numbered `stalled` never returns
handleRateResume(i, resp) ==
    /\ i \in 1..Len(rateReqs)
    /\ i # stalled
    /\ CanResume(rateReqs, i)
    /\ LET r == rateReqs[i]
           seriesId == Or(env.FRED_SERIES_ID, DefaultSeries)
           data == FredResult(resp, seriesId)
           payload == IF Truthy(data) THEN data[2] ELSE FallbackQuote
       IN /\ fredCache' = StoreQuote(fredCache, r.now, now, payload)
          /\ rateReqs' = [rateReqs EXCEPT ![i] =
                 RateReq(r.method, "done", r.now, 200, TRUE, Json(payload), r.net, resp,
                         r.seen)]
    /\ UNCHANGED <<env, now, subscribers, subReqs, stalled>>

\* the clock advances by half a TTL
Tick ==
    /\ now < MaxTicks * (TTL \div 2)
    /\ now' = now + TTL \div 2
    /\ UNCHANGED <<env, fredCache, rateReqs, subscribers, subReqs, stalled>>

RateMethods == {"GET", "OPTIONS", "POST"}

(* ------------------------ /api/subscribe: values ----------------------- *)
AlreadySubscribed == <<"already", " ", "subscribed">>

Msg(m) == Str(<<m>>)

KeyNotSet == Msg("BUTTONDOWN_API_KEY not set")
FetchFailed == Msg("fetch failed")
NotAFunction == Msg("email.includes is not a function")
UnexpectedToken == Msg("Unexpected token < in JSON")
CannotReadNull == Msg("Cannot read properties of null (reading 'results')")
CannotReadUndefined == Msg("Cannot read properties of undefined (reading 'tags')")
FindFailed == Msg("Failed to find subscriber")
NotFound == Msg("Subscriber not found")
DefaultError == Msg("Failed to subscribe. Please try again.")
InvalidEmail == Msg("Invalid email address")
MissingFields == Msg("Missing required fields")
Subscribed == Msg("Successfully subscribed! You'll receive a reminder before the deadline.")
Added == Msg("Settlement added to your subscriptions!")

\* new Date().toISOString() at time t
ISOString(t) == <<"iso", t>>

EmptyObject == [k \in {} |-> Undefined]

\* `settlement_${tag}`
settlementKey(tag) == <<"settlement_">> \o tag[2]

\* o[key] = value on an object
SetMember(o, key, value) ==
    [k \in DOMAIN o \cup {key} |-> IF k = key THEN value ELSE o[k]]

\* ArrayIncludes that never finds the element
ArrayIncludesNever(a, x) == FALSE

\* Array.prototype.includes
ArrayIncludes(a, x) == \E k \in 1..Len(a) : a[k] = x

(* -------------------- /api/subscribe: upstream responses --------------- *)
\* a response of the mailing-list API: the fetch throws, or it returns with
\* resp.ok, a body text, and the value the text parses to (parses = FALSE
\* when the text is not JSON)
BdResp(kind, ok, parses, text, data) ==
    [kind |-> kind, ok |-> ok, parses |-> parses, text |-> text, data |-> data]

Thrown == BdResp("throw", FALSE, FALSE, <<>>, Undefined)

ErrBody(detail, code) == Obj([detail |-> detail, code |-> code])

\* bodies of a refused create
CreateRefusals ==
    { BdResp("http", FALSE, FALSE, <<"Email ", "already", " ", "subscribed">>, Undefined),
      BdResp("http", FALSE, TRUE, <<"{", "detail", "code", "}">>,
             ErrBody(Str(<<"This address is ", "already", " ", "subscribed", ".">>),
                     Str(<<"email_already_exists">>))),
      BdResp("http", FALSE, TRUE, <<"{", "email_address", "already", " ", "subscribed", "}">>,
             ErrBody(Undefined, Undefined)),
      BdResp("http", FALSE, TRUE, <<"{", "detail", "}">>,
             ErrBody(Str(<<"Invalid", " ", "email">>), Undefined)),
      BdResp("http", FALSE, TRUE, <<"{", "code", "}">>,
             ErrBody(Str(<<>>), Str(<<"already", " ", "exists">>))),
      BdResp("http", FALSE, TRUE, <<"{", "detail", "code", "}">>,
             ErrBody(Str(<<"Blocked">>), Str(AlreadySubscribed))),
      BdResp("http", FALSE, FALSE, <<>>, Undefined) }

\* bodies of a refused patch
PatchRefusals ==
    { BdResp("http", FALSE, FALSE, <<"Bad gateway">>, Undefined),
      BdResp("http", FALSE, FALSE, <<>>, Undefined) }

\* CreateErrorMessage that prefers the code to the detail
CreateErrorMessageCodeFirst(resp) ==
    LET text == Str(resp.text)
    IN IF resp.parses /\ resp.data # Null
       THEN Or(Or(resp.data[2].code, resp.data[2].detail), text)
       ELSE text

\* the message of the Error subscribeToButtondown throws for a refused create
CreateErrorMessage(resp) ==
    LET text == Str(resp.text)
    IN IF resp.parses /\ resp.data # Null
       THEN Or(Or(resp.data[2].detail, resp.data[2].code), text)
       ELSE text

\* the subscribers the upstream search returns for an e-mail address
RECURSIVE SearchResults(_, _, _)
SearchResults(subs, email, i) ==
    IF i > Len(subs) THEN <<>>
    ELSE (IF subs[i].email = email
          THEN <<Obj([id |-> i, tags |-> subs[i].tags, metadata |-> subs[i].metadata])>>
          ELSE <<>>) \o SearchResults(subs, email, i + 1)

SearchBody(results) == Obj([results |-> results])

(* ------------------------ /api/subscribe: handler ---------------------- *)
Email1 == Str(<<"u", "@", "x">>)
TagA == Str(<<"tagA">>)
TagB == Str(<<"tagB">>)
TagC == Str(<<"tagC">>)
Name1 == Str(<<"Name">>)
Deadline1 == Str(<<"2025-01-31">>)

SubInput(method, email, settlementId, settlementName, deadline) ==
    [method |-> method, email |-> email, settlementId |-> settlementId,
     settlementName |-> settlementName, deadline |-> deadline]

\* requests to /api/subscribe: the method and the members of the parsed body
\* (a body that is not JSON parses to {}, every member undefined)
SubInputs ==
    { SubInput("POST", Email1, TagA, Name1, Undefined),
      SubInput("POST", Email1, TagB, Name1, Deadline1),
      SubInput("POST", Undefined, Undefined, Undefined, Undefined),
      SubInput("POST", Str(<<>>), TagA, Name1, Undefined),
      SubInput("POST", Str(<<"u", "x">>), TagA, Name1, Deadline1),
      SubInput("POST", Num(42), TagA, Name1, Undefined),
      SubInput("POST", Email1, Str(<<>>), Name1, Undefined),
      SubInput("POST", Email1, TagA, Undefined, Undefined),
      SubInput("OPTIONS", Undefined, Undefined, Undefined, Undefined),
      SubInput("GET", Undefined, Undefined, Undefined, Undefined) }

\* a request in progress or answered: its input, where the handler stands
\* (pc), the response (status 0 while unanswered), the upstream calls issued
\* (calls), the body of the call in flight (sent), the upstream responses
\* received (got) and the requests already answered when it arrived (after)
SubReq(in, pc, status, body, calls, sent, got, after) ==
    [in |-> in, pc |-> pc, status |-> status, body |-> body, calls |-> calls,
     sent |-> sent, got |-> got, after |-> after]

Answered(reqs) == {k \in 1..Len(reqs) : reqs[k].pc = "done"}

\* ServerError that hides the message of the failure
ServerErrorGeneric(message) == Json([error |-> DefaultError])

\* res.writeHead(500).end(JSON.stringify({ error: e.message || '...' }))
ServerError(message) == Json([error |-> Or(message, DefaultError)])

\* the body of the POST subscribeToButtondown sends
CreateBody(email, tag, name, deadline, t) ==
    LET base == [k \in {<<"settlementName">>, <<"subscribedAt">>} |->
                    IF k = <<"settlementName">> THEN name ELSE ISOString(t)]
        metadata == IF Truthy(deadline) THEN SetMember(base, <<"deadline">>, deadline)
                    ELSE base
    IN Obj([email_address |-> email, tags |-> Arr(<<tag>>), metadata |-> Obj(metadata)])

\* the body of the PATCH updateButtondownSubscriber sends for the subscriber
\* sub it found, with the id it is sent to
PatchBody(sub, tag, name, deadline, t) ==
    LET tags == IF Truthy(sub.tags) THEN sub.tags[2] ELSE <<>>
        updatedTags == IF ArrayIncludes(tags, tag) THEN sub.tags ELSE Arr(Append(tags, tag))
        meta == IF Truthy(sub.metadata) THEN sub.metadata[2] ELSE EmptyObject
        value == Json([name |-> name, deadline |-> deadline, subscribedAt |-> ISOString(t)])
    IN Obj([id |-> sub.id, tags |-> updatedTags,
            metadata |-> Obj(SetMember(meta, settlementKey(tag), value))])

\* KeyMissing without the check
KeyNeverMissing(e) == FALSE

\* if (!key) throw new Error('BUTTONDOWN_API_KEY not set')
KeyMissing(e) == ~Truthy(e.BUTTONDOWN_API_KEY)

\* NoResults without the length check
NoResultsField(data) == ~Truthy(data.results)

\* !data.results || !data.results.length
NoResults(data) == ~Truthy(data.results) \/ Len(data.results[2]) = 0

\* HasAt that only asks for a non-empty string
HasAny(email) == Len(email[2]) > 0

\* email.includes('@')
HasAt(email) == Includes(email[2], <<"@">>)

\* handleSubscribe from its entry to the await of the create call, or to its
\* end when it answers before any call
handleSubscribe(in) ==
    LET after == Answered(subReqs)
        end(status, body) == SubReq(in, "done", status, body, <<>>, Undefined, <<>>, after)
    IN
    /\ subReqs' = Append(subReqs,
          IF in.method = "OPTIONS" THEN end(204, NoBody)
          ELSE IF in.method # "POST"
          THEN end(405, Json([error |-> Str(<<"Method not allowed">>)]))
          ELSE IF ~Truthy(in.email) THEN end(400, Json([error |-> InvalidEmail]))
          ELSE IF ~IsStr(in.email) THEN end(500, ServerError(NotAFunction))
          ELSE IF ~HasAt(in.email) THEN end(400, Json([error |-> InvalidEmail]))
          ELSE IF ~Truthy(in.settlementId) \/ ~Truthy(in.settlementName)
          THEN end(400, Json([error |-> MissingFields]))
          ELSE IF KeyMissing(env) THEN end(500, ServerError(KeyNotSet))
          ELSE SubReq(in, "create", 0, NoBody, <<"create">>,
                      CreateBody(in.email, in.settlementId, in.settlementName,
                                 Or(in.deadline, Null), now),
                      <<>>, after))
    /\ UNCHANGED <<env, now, fredCache, rateReqs, subscribers, stalled>>

Fail(r, resp, message) ==
    [r EXCEPT !.pc = "done", !.status = 500, !.body = ServerError(message),
              !.sent = Undefined, !.got = Append(r.got, resp)]

\* the create call returns: subscribeToButtondown ends, and on an "already
\* subscribed" failure updateButtondownSubscriber runs to its search call
CreateReturn(i, resp) ==
    /\ i \in 1..Len(subReqs)
    /\ subReqs[i].pc = "create"
    /\ LET r == subReqs[i]
           stored == [email |-> r.sent[2].email_address, tags |-> r.sent[2].tags,
                      metadata |-> r.sent[2].metadata]
           message == CreateErrorMessage(resp)
       IN IF resp.kind = "throw"
          THEN /\ subReqs' = [subReqs EXCEPT ![i] = Fail(r, resp, FetchFailed)]
               /\ UNCHANGED subscribers
          ELSE IF resp.ok
          THEN /\ SearchResults(subscribers, r.in.email, 1) = <<>>
               /\ subscribers' = Append(subscribers, stored)
               /\ subReqs' = [subReqs EXCEPT ![i] =
                      IF resp.parses
                      THEN [r EXCEPT !.pc = "done", !.status = 200,
                                     !.body = Json([success |-> True, message |-> Subscribed]),
                                     !.sent = Undefined, !.got = Append(r.got, resp)]
                      ELSE Fail(r, resp, UnexpectedToken)]
          ELSE /\ UNCHANGED subscribers
               /\ subReqs' = [subReqs EXCEPT ![i] =
                      IF ~Includes(message[2], AlreadySubscribed) THEN Fail(r, resp, message)
                      ELSE IF KeyMissing(env) THEN Fail(r, resp, KeyNotSet)
                      ELSE [r EXCEPT !.pc = "search", !.calls = Append(r.calls, "search"),
                                     !.sent = Obj([email |-> r.in.email]),
                                     !.got = Append(r.got, resp)]]
    /\ UNCHANGED <<env, now, fredCache, rateReqs, stalled>>

\* the search call returns: updateButtondownSubscriber runs to its patch call
SearchReturn(i, resp) ==
    /\ i \in 1..Len(subReqs)
    /\ subReqs[i].pc = "search"
    /\ LET r == subReqs[i]
       IN subReqs' = [subReqs EXCEPT ![i] =
              IF resp.kind = "throw" THEN Fail(r, resp, FetchFailed)
              ELSE IF ~resp.ok THEN Fail(r, resp, FindFailed)
              ELSE IF ~resp.parses THEN Fail(r, resp, UnexpectedToken)
              ELSE IF resp.data = Null THEN Fail(r, resp, CannotReadNull)
              ELSE IF NoResults(resp.data[2]) THEN Fail(r, resp, NotFound)
              ELSE IF Len(resp.data[2].results[2]) = 0 THEN Fail(r, resp, CannotReadUndefined)
              ELSE [r EXCEPT !.pc = "patch", !.calls = Append(r.calls, "patch"),
                             !.sent = PatchBody(resp.data[2].results[2][1][2], r.in.settlementId,
                                                r.in.settlementName, Or(r.in.deadline, Null),
                                                now),
                             !.got = Append(r.got, resp)]]
    /\ UNCHANGED <<env, now, fredCache, rateReqs, subscribers, stalled>>

\* the patch call returns: updateButtondownSubscriber and the handler end
PatchReturn(i, resp) ==
    /\ i \in 1..Len(subReqs)
    /\ subReqs[i].pc = "patch"
    /\ LET r == subReqs[i]
           id == r.sent[2].id
       IN IF resp.kind = "throw"
          THEN /\ subReqs' = [subReqs EXCEPT ![i] = Fail(r, resp, FetchFailed)]
               /\ UNCHANGED subscribers
          ELSE IF ~resp.ok
          THEN /\ subReqs' = [subReqs EXCEPT ![i] = Fail(r, resp, Str(resp.text))]
               /\ UNCHANGED subscribers
          ELSE /\ subscribers' = [subscribers EXCEPT ![id].tags = r.sent[2].tags,
                                                     ![id].metadata = r.sent[2].metadata]
               /\ subReqs' = [subReqs EXCEPT ![i] =
                      IF resp.parses
                      THEN [r EXCEPT !.pc = "done", !.status = 200,
                                     !.body = Json([success |-> True, message |-> Added]),
                                     !.sent = Undefined, !.got = Append(r.got, resp)]
                      ELSE Fail(r, resp, UnexpectedToken)]
    /\ UNCHANGED <<env, now, fredCache, rateReqs, stalled>>

\* responses of the three upstream operations
Accepted == BdResp("http", TRUE, TRUE, <<"{", "}">>, Obj(EmptyObject))
NotJson == BdResp("http", TRUE, FALSE, <<"<html>">>, Undefined)

CreateResps == {Thrown, Accepted, NotJson} \cup CreateRefusals

SearchResps(email) ==
    { Thrown,
      BdResp("http", FALSE, FALSE, <<"Unauthorized">>, Undefined),
      NotJson,
      BdResp("http", TRUE, TRUE, <<"null">>, Null),
      BdResp("http", TRUE, TRUE, <<"{", "}">>, SearchBody(Undefined)),
      BdResp("http", TRUE, TRUE, <<"{", "results", "}">>,
             SearchBody(Arr(SearchResults(subscribers, email, 1)))) }

PatchResps == {Thrown, Accepted, NotJson} \cup PatchRefusals

\* subscribers the mailing list may hold before the first request
Existing(tags, metadata) == [email |-> Email1, tags |-> tags, metadata |-> metadata]

OtherMeta == [k \in {<<"source">>} |-> Str(<<"import">>)]

InitSubscribers ==
    { <<>>,
      <<Existing(Undefined, Undefined)>>,
      <<Existing(Arr(<<TagC>>), Obj(OtherMeta))>>,
      <<Existing(Arr(<<TagA, TagC>>),
                 Obj(SetMember(OtherMeta, settlementKey(TagA), Str(<<"old">>))))>> }

\* stalled is the number of the /api/rate request whose upstream call never
\* returns (0: every upstream call returns)
Init ==
    /\ stalled \in 0..MaxRateReqs
    /\ env \in EnvSet
    /\ now = 0
    /\ fredCache = Null
    /\ rateReqs = <<>>
    /\ subscribers \in InitSubscribers
    /\ subReqs = <<>>

RateArrive == \E m \in RateMethods : Len(rateReqs) < MaxRateReqs /\ handleRate(m)

RateReturn == \E i \in 1..Len(rateReqs), resp \in NarrowResps : handleRateResume(i, resp)

RateNext == RateArrive \/ RateReturn \/ Tick

\* the mailing list plays no part in /api/rate
InitRate == Init /\ subscribers = <<>> /\ env.BUTTONDOWN_API_KEY = Key /\ stalled = 0

SpecRate == InitRate /\ [][RateNext]_vars

\* one request, every upstream response of the wide set
QuoteArrive == \E m \in RateMethods : Len(rateReqs) < 1 /\ handleRate(m)

QuoteReturn == \E resp \in WideResps : handleRateResume(1, resp)

QuoteNext == QuoteArrive \/ QuoteReturn

SpecQuote == InitRate /\ [][QuoteNext]_vars

\* three racing GET requests: the credential set, and an upstream that fails
\* or returns one observation
RaceResps == {[kind |-> "throw", ok |-> FALSE, parses |-> FALSE, data |-> Undefined],
              ObsResp(<<Entry(Str(<<"7">>), Date1)>>)}

\* one request more than in SpecRate
MaxRaceReqs == MaxRateReqs + 1

RaceArrive == Len(rateReqs) < MaxRaceReqs /\ handleRate("GET")

RaceReturn == \E i \in 1..Len(rateReqs), resp \in RaceResps : handleRateResume(i, resp)

RaceNext == RaceArrive \/ RaceReturn \/ Tick

InitRace == InitRate /\ env.FRED_API_KEY = Key /\ env.FRED_SERIES_ID = Undefined

SpecRace == InitRace /\ [][RaceNext]_vars

\* GET requests of which one may never get its upstream response, under fair
\* scheduling: the fetch of every other suspended request returns, and the
\* event loop then runs the handler's continuation
StallArrive == Len(rateReqs) < MaxRateReqs /\ handleRate("GET")

StallReturn(i) == \E resp \in RaceResps : handleRateResume(i, resp)

StallNext == StallArrive \/ (\E i \in 1..MaxRateReqs : StallReturn(i)) \/ Tick

InitStall ==
    /\ Init
    /\ subscribers = <<>>
    /\ env.BUTTONDOWN_API_KEY = Key /\ env.FRED_API_KEY = Key /\ env.FRED_SERIES_ID = Undefined

SpecStall ==
    /\ InitStall
    /\ [][StallNext]_vars
    /\ \A i \in 1..MaxRateReqs : WF_vars(StallReturn(i))

\* concurrent requests: the valid inputs, one invalid input, and one upstream
\* response of each kind
NarrowInputs ==
    { SubInput("POST", Email1, TagA, Name1, Undefined),
      SubInput("POST", Email1, TagB, Name1, Deadline1),
      SubInput("POST", Str(<<"u", "x">>), TagA, Name1, Deadline1) }

AlreadyResp ==
    BdResp("http", FALSE, FALSE, <<"Email ", "already", " ", "subscribed">>, Undefined)

RefusedResp == BdResp("http", FALSE, FALSE, <<"Bad gateway">>, Undefined)

FoundResp(email) ==
    BdResp("http", TRUE, TRUE, <<"{", "results", "}">>,
           SearchBody(Arr(SearchResults(subscribers, email, 1))))

SubArrive == \E in \in NarrowInputs : Len(subReqs) < MaxSubReqs /\ handleSubscribe(in)

SubCreated ==
    \E i \in 1..Len(subReqs), resp \in {Accepted, AlreadyResp, RefusedResp} :
        CreateReturn(i, resp)

SubSearched ==
    \E i \in 1..Len(subReqs) :
        \E resp \in {FoundResp(subReqs[i].in.email), RefusedResp} : SearchReturn(i, resp)

SubPatched == \E i \in 1..Len(subReqs), resp \in {Accepted, RefusedResp} : PatchReturn(i, resp)

SubNext == SubArrive \/ SubCreated \/ SubSearched \/ SubPatched

\* the series API plays no part in /api/subscribe
InitSub == Init /\ env.FRED_API_KEY = Key /\ env.FRED_SERIES_ID = Undefined /\ stalled = 0

SpecSub == InitSub /\ [][SubNext]_vars

\* one request, every input and every upstream response
OneArrive == \E in \in SubInputs : Len(subReqs) < 1 /\ handleSubscribe(in)

OneCreated == \E resp \in CreateResps : CreateReturn(1, resp)

OneSearched ==
    /\ Len(subReqs) = 1
    /\ \E resp \in SearchResps(subReqs[1].in.email) : SearchReturn(1, resp)

OnePatched == \E resp \in PatchResps : PatchReturn(1, resp)

OneNext == OneArrive \/ OneCreated \/ OneSearched \/ OnePatched \/ Tick

SpecOne == InitSub /\ [][OneNext]_vars

Next == RateNext \/ SubNext

Spec == Init /\ [][Next]_vars

(* ------------------------------- claims -------------------------------- *)
GetReqs == {i \in 1..Len(rateReqs) : rateReqs[i].method = "GET"}

\* C1: a GET /api/rate request that arrives while the cache holds an entry
\* captured less than one hour before is answered at once with exactly the
\* cached payload, issues no upstream fetch, and leaves the cache entry
\* (payload and timestamp) as it was.
C1_FreshHitServedFromCache ==
    [][ \A m \in RateMethods :
          ( /\ handleRate(m)
            /\ m = "GET"
            /\ fredCache # Null
            /\ now - fredCache[2].ts < 3600000 )
          => LET r == rateReqs'[Len(rateReqs')]
             IN /\ r.pc = "done"
                /\ r.status = 200
                /\ r.body = Json(fredCache[2].payload)
                /\ r.net = 0
                /\ fredCache' = fredCache ]_vars

\* a request answered from an entry captured earlier, still younger than one hour
C1_Witness ==
    \E i \in GetReqs :
        /\ rateReqs[i].pc = "done"
        /\ rateReqs[i].net = 0
        /\ fredCache # Null
        /\ fredCache[2].ts < rateReqs[i].now
        /\ rateReqs[i].now - fredCache[2].ts < 3600000
        /\ rateReqs[i].body = Json(fredCache[2].payload)

\* a response body that carries a quote
IsQuoteBody(b) ==
    /\ b[1] = "obj"
    /\ {"ratePercent", "adjustedAdded", "source"} \subseteq DOMAIN b[2]
    /\ IsNum(b[2].ratePercent)
    /\ IsNum(b[2].adjustedAdded)
    /\ IsStr(b[2].source)

\* C2: getQuote never fails: whatever the upstream fetch returns (and when
\* the credential is absent), fetchFredLatest yields null or a quote with a
\* finite rate, and the GET /api/rate request ends with status 200 and a body
\* carrying a quote.
C2_QuoteNeverFails ==
    \A i \in GetReqs :
        /\ rateReqs[i].pc = "fetch" =>
              \A resp \in WideResps :
                  LET data == FredResult(resp, DefaultSeries)
                  IN data = Null \/ (data[1] = "obj" /\ IsNum(data[2].ratePercent))
        /\ rateReqs[i].pc = "done" =>
              /\ rateReqs[i].status = 200
              /\ IsQuoteBody(rateReqs[i].body)

\* requests answered after a thrown fetch, a non-success status, a body that
\* does not parse, and an observation that is not a number
C2_Witness ==
    \E i \in GetReqs :
        /\ rateReqs[i].pc = "done"
        /\ rateReqs[i].status = 200
        /\ rateReqs[i].net = 1
        /\ rateReqs[i].resp = ObsResp(<<Entry(Str(<<"x">>), Date2)>>)

FallbackBody ==
    Obj([ratePercent |-> Num(550), rawPercent |-> Null, adjustedAdded |-> Num(50),
         observationDate |-> Null, source |-> Str(<<"fallback">>)])

\* the response carries an observation list whose entries all hold the sentinel "."
OnlySentinels(resp) ==
    /\ resp.kind = "http" /\ resp.ok /\ resp.parses
    /\ resp.data # Null
    /\ resp.data[2].observations # Undefined
    /\ resp.data[2].observations[1] = "arr"
    /\ \A k \in 1..Len(resp.data[2].observations[2]) :
          LET o == resp.data[2].observations[2][k]
          IN o # Null /\ o[2].value = Str(<<".">>)

\* C3: on a cache miss, when the credential is absent, or the observation
\* list is empty or holds only the sentinel ".", the request is answered with
\* the fallback quote (5.5, no raw value, no date, spread 0.5, source
\* "fallback"); and with the credential absent no network call is made.
C3_FallbackQuote ==
    \A i \in GetReqs :
        /\ env.FRED_API_KEY = Undefined =>
              /\ rateReqs[i].pc = "done"
              /\ rateReqs[i].net = 0
              /\ rateReqs[i].body = FallbackBody
        /\ (rateReqs[i].pc = "done" /\ OnlySentinels(rateReqs[i].resp)) =>
              rateReqs[i].body = FallbackBody

\* a sentinel-only or empty observation list was answered with the fallback
C3_Witness ==
    \E i \in GetReqs :
          /\ rateReqs[i].pc = "done"
          /\ rateReqs[i].resp \in {ObsResp(<<>>),
                                   ObsResp(<<Entry(Str(<<".">>), Date1),
                                             Entry(Str(<<".">>), Date1)>>)}
          /\ rateReqs[i].body = FallbackBody

\* entry k of obs is the first whose value is present and not "."
Usable(o) == o # Null /\ o[2].value \notin {Undefined, Str(<<>>), Str(<<".">>)}

FirstUsable(obs, k) ==
    /\ k \in 1..Len(obs)
    /\ Usable(obs[k])
    /\ \A j \in 1..(k - 1) : ~Usable(obs[j])

\* C4: when the observation fetched reads as a finite number r, the quote
\* has rawPercent = r, ratePercent = r + 0.5 rounded to one decimal (the
\* nearest tenth, a tie going up, which is round((r + 0.5) * 10) / 10),
\* adjustedAdded = 0.5 and source = the configured series identifier.
C4_RateIsRoundedRawPlusSpread ==
    \A i \in GetReqs :
        \A vt \in ValueTable :
            LET r == rateReqs[i]
                obs == r.resp.data[2].observations[2]
            IN ( /\ r.pc = "done"
                 /\ r.resp.kind = "http" /\ r.resp.ok /\ r.resp.parses
                 /\ r.resp.data # Null
                 /\ r.resp.data[2].observations # Undefined
                 /\ r.resp.data[2].observations[1] = "arr"
                 /\ IsNum(vt[2])
                 /\ \E k \in 1..Len(obs) :
                       FirstUsable(obs, k) /\ obs[k][2].value = Str(vt[1]) )
               => /\ r.body[2].rawPercent = vt[2]
                  /\ IsNum(r.body[2].ratePercent)
                  /\ r.body[2].ratePercent[2] % 10 = 0
                  /\ r.body[2].ratePercent[2] - (vt[2][2] + 50) \in -4..5
                  /\ r.body[2].adjustedAdded = Num(50)
                  /\ r.body[2].source =
                        (IF env.FRED_SERIES_ID = Undefined THEN Str(<<"MORTGAGE30US">>)
                         ELSE env.FRED_SERIES_ID)

\* 6.45 is quoted as 7.0 (a tie, rounded up) from the second observation
C4_Witness ==
    \E i \in GetReqs :
        /\ rateReqs[i].pc = "done"
        /\ rateReqs[i].resp = ObsResp(<<Entry(Str(<<".">>), Date1),
                                        Entry(Str(<<"6", ".", "4", "5">>), Date2)>>)
        /\ rateReqs[i].body[2].ratePercent = Num(700)
        /\ rateReqs[i].body[2].rawPercent = Num(645)

SubIdx == 1..Len(subReqs)

\* v is a serialized settlement record {name, deadline, subscribedAt}
HoldsRecord(v, name, deadline) ==
    /\ v[1] = "obj"
    /\ DOMAIN v[2] = {"name", "deadline", "subscribedAt"}
    /\ v[2].name = name
    /\ v[2].deadline = deadline

\* the subscriber with this e-mail carries the tag and its settlement record
HasSettlement(email, tag, name, deadline) ==
    \E k \in 1..Len(subscribers) :
        /\ subscribers[k].email = email
        /\ subscribers[k].tags # Undefined
        /\ ArrayIncludes(subscribers[k].tags[2], tag)
        /\ subscribers[k].metadata # Undefined
        /\ settlementKey(tag) \in DOMAIN subscribers[k].metadata[2]
        /\ HoldsRecord(subscribers[k].metadata[2][settlementKey(tag)], name, deadline)

\* C5: a reconcile call against an upstream with no subscriber for the e-mail
\* leaves a created subscriber whose tags include the tag and whose metadata
\* holds the settlement record {name, deadline, subscribedAt} under the key
\* settlement_<tag>.
C5_CreatedSubscriberHasSettlementKey ==
    \A i \in SubIdx :
        LET r == subReqs[i]
        IN (r.pc = "done" /\ r.status = 200 /\ r.calls = <<"create">>)
           => HasSettlement(r.in.email, r.in.settlementId, r.in.settlementName,
                            Or(r.in.deadline, Null))

\* C6: two successive successful reconcile calls for the same e-mail with two
\* different tags, the first against an upstream without that subscriber,
\* leave a subscriber whose tag set is exactly the two tags and whose metadata
\* holds both settlement keys.
C6_TwoTagsBothKept ==
    \A i \in SubIdx : \A j \in SubIdx :
        LET a == subReqs[i]
            b == subReqs[j]
        IN ( /\ i \in b.after
             /\ a.pc = "done" /\ a.status = 200 /\ a.calls = <<"create">>
             /\ b.pc = "done" /\ b.status = 200
             /\ a.in.email = b.in.email
             /\ a.in.settlementId # b.in.settlementId
             /\ \A k \in SubIdx \ {i, j} : subReqs[k].calls = <<>> )
           => \E k \in 1..Len(subscribers) :
                 LET sub == subscribers[k]
                 IN /\ sub.email = a.in.email
                    /\ {sub.tags[2][n] : n \in 1..Len(sub.tags[2])}
                          = {a.in.settlementId, b.in.settlementId}
                    /\ settlementKey(a.in.settlementId) \in DOMAIN sub.metadata[2]
                    /\ settlementKey(b.in.settlementId) \in DOMAIN sub.metadata[2]

Absent(v) == v \in {Undefined, Null, Str(<<>>)}

LacksAt(email) == IsStr(email) /\ \A k \in 1..Len(email[2]) : email[2][k] # "@"

\* a POST whose e-mail is absent or a string without '@', or whose e-mail is
\* a string and whose tag or name is empty
FailsValidation(in) ==
    /\ in.method = "POST"
    /\ \/ Absent(in.email)
       \/ LacksAt(in.email)
       \/ IsStr(in.email) /\ (Absent(in.settlementId) \/ Absent(in.settlementName))

EmptySearch(resp) ==
    /\ resp.kind = "http" /\ resp.ok /\ resp.parses
    /\ resp.data # Null
    /\ resp.data[2].results \in {Undefined, Arr(<<>>)}

\* C8: when create is refused as "already subscribed" and the search by
\* e-mail returns no results, reconcile fails with "Subscriber not found"
\* (status 500), no patch call is issued and no success response is sent.
C8_NotFoundAfterAlreadySubscribed ==
    \A i \in SubIdx :
        LET r == subReqs[i]
        IN ( /\ Len(r.got) >= 2
             /\ r.got[1].kind = "http" /\ ~r.got[1].ok
             /\ EmptySearch(r.got[2]) )
           => /\ r.pc = "done"
              /\ r.status = 500
              /\ r.body = Obj([error |-> Str(<<"Subscriber not found">>)])
              /\ r.calls = <<"create", "search">>

\* the search returned an empty result list after an "already subscribed" refusal
C8_Witness ==
    \E i \in SubIdx :
        /\ Len(subReqs[i].got) = 2
        /\ subReqs[i].got[2].data = SearchBody(Arr(<<>>))
        /\ subReqs[i].status = 500

\* the message of a failed create, read off the response
FailureText(resp) ==
    IF resp.kind = "throw" THEN <<"fetch failed">>
    ELSE IF resp.ok THEN <<"Unexpected token < in JSON">>
    ELSE IF resp.parses /\ resp.data # Null /\ ~Absent(resp.data[2].detail)
    THEN resp.data[2].detail[2]
    ELSE IF resp.parses /\ resp.data # Null /\ ~Absent(resp.data[2].code)
    THEN resp.data[2].code[2]
    ELSE resp.text

CarriesIndicator(t) ==
    \E k \in 1..(Len(t) - 2) :
        t[k] = "already" /\ t[k + 1] = " " /\ t[k + 2] = "subscribed"

\* C9: when create fails with a message that does not carry the "already
\* subscribed" indicator, reconcile fails with a server error carrying that
\* message, and neither search nor patch is ever issued for the request.
C9_OtherCreateFailureNoUpdate ==
    \A i \in SubIdx :
        LET r == subReqs[i]
        IN ( /\ Len(r.got) >= 1
             /\ ~(r.got[1].ok /\ r.got[1].parses)
             /\ ~CarriesIndicator(FailureText(r.got[1])) )
           => /\ r.pc = "done"
              /\ r.status = 500
              /\ r.body = Obj([error |->
                     IF FailureText(r.got[1]) = <<>>
                     THEN Str(<<"Failed to subscribe. Please try again.">>)
                     ELSE Str(FailureText(r.got[1]))])
              /\ r.calls = <<"create">>

\* a refusal whose detail lacks the indicator while its code carries it
C9_Witness ==
    \E i \in SubIdx :
        /\ subReqs[i].pc = "done"
        /\ Len(subReqs[i].got) = 1
        /\ subReqs[i].got[1].parses
        /\ subReqs[i].got[1].data = ErrBody(Str(<<"Blocked">>), Str(AlreadySubscribed))
        /\ subReqs[i].calls = <<"create">>

\* a POST that passes validation
PassesValidation(in) ==
    /\ in.method = "POST"
    /\ IsStr(in.email) /\ ~LacksAt(in.email)
    /\ ~Absent(in.settlementId) /\ ~Absent(in.settlementName)

\* C10: with the mailing-list credential absent, reconcile fails with the
\* configuration error "BUTTONDOWN_API_KEY not set" and issues no network
\* call; no failure that follows an upstream call carries that message.
C10_MissingKeyIsConfigurationError ==
    \A i \in SubIdx :
        LET r == subReqs[i]
        IN /\ (PassesValidation(r.in) /\ env.BUTTONDOWN_API_KEY = Undefined)
              => /\ r.pc = "done"
                 /\ r.status = 500
                 /\ r.body = Obj([error |-> Str(<<"BUTTONDOWN_API_KEY not set">>)])
                 /\ r.calls = <<>>
           /\ (r.pc = "done" /\ r.status = 500 /\ r.calls # <<>>)
              => r.body # Obj([error |-> Str(<<"BUTTONDOWN_API_KEY not set">>)])

\* a valid request was refused for the missing credential
C10_Witness ==
    \E i \in SubIdx :
        /\ PassesValidation(subReqs[i].in)
        /\ env.BUTTONDOWN_API_KEY = Undefined
        /\ subReqs[i].status = 500
        /\ subReqs[i].calls = <<>>

(* ------------------------------ C11 .. C20 ----------------------------- *)
Elems(a) == {a[k] : k \in 1..Len(a)}

\* the tag list and the metadata object of a subscriber record
TagsOf(sub) == IF sub.tags \in {Undefined, Null} THEN <<>> ELSE sub.tags[2]

MetaOf(sub) == IF sub.metadata \in {Undefined, Null} THEN EmptyObject ELSE sub.metadata[2]

\* new is old merged with the settlement of the request in: the tags of old
\* all kept, the tag of in present exactly once, the metadata of old kept
\* except for the settlement key of the tag, which holds the record of in
MergedWith(old, new, in) ==
    LET tag == in.settlementId
        key == settlementKey(tag)
    IN /\ Elems(TagsOf(new)) = Elems(TagsOf(old)) \cup {tag}
       /\ Cardinality({k \in 1..Len(TagsOf(new)) : TagsOf(new)[k] = tag}) = 1
       /\ Len(TagsOf(new)) = Cardinality(Elems(TagsOf(old)) \cup {tag})
       /\ DOMAIN MetaOf(new) = DOMAIN MetaOf(old) \cup {key}
       /\ \A k \in DOMAIN MetaOf(old) \ {key} : MetaOf(new)[k] = MetaOf(old)[k]
       /\ HoldsRecord(MetaOf(new)[key], in.settlementName, Or(in.deadline, Null))

\* the subscriber the search of request r returned
Found(r) == r.got[2].data[2].results[2][1][2]

\* C11: on the update path, whatever the subscriber the search returned, the
\* tags sent in the patch, and stored once the patch is accepted, are the
\* subscriber's tags plus the request's tag, that tag exactly once and no tag
\* dropped; the metadata sent and stored is the subscriber's metadata with
\* only the key settlement_<tag> set or replaced.
C11_PatchMergesTagsAndMetadata ==
    \A i \in SubIdx :
        LET r == subReqs[i]
        IN /\ r.pc = "patch" => MergedWith(Found(r), r.sent[2], r.in)
           /\ (r.pc = "done" /\ Len(r.got) = 3 /\ r.got[3].kind = "http" /\ r.got[3].ok)
              => MergedWith(Found(r), subscribers[Found(r).id], r.in)

\* a patch was accepted for a subscriber that already carried the tag, an
\* older record under its settlement key, another tag and another key
C11_Witness ==
    \E i \in SubIdx :
        LET r == subReqs[i]
        IN /\ r.pc = "done" /\ r.status = 200 /\ Len(r.got) = 3
           /\ r.in.settlementId = TagA
           /\ TagsOf(Found(r)) = <<TagA, TagC>>
           /\ settlementKey(TagA) \in DOMAIN MetaOf(Found(r))
           /\ TagsOf(subscribers[Found(r).id]) = <<TagA, TagC>>
           /\ MetaOf(subscribers[Found(r).id])[<<"source">>] = Str(<<"import">>)

\* the upstream accepted the call and its answer could be read
CallSucceeded(resp) == resp.kind = "http" /\ resp.ok /\ resp.parses

CreateSucceeded(r) == Len(r.got) >= 1 /\ CallSucceeded(r.got[1])

\* the create call was refused with the "already subscribed" indicator
CreateAlreadySubscribed(r) ==
    /\ Len(r.got) >= 1
    /\ r.got[1].kind = "http" /\ ~r.got[1].ok
    /\ CarriesIndicator(FailureText(r.got[1]))

\* the search call returned at least one subscriber
SearchSucceeded(r) ==
    /\ Len(r.got) >= 2
    /\ CallSucceeded(r.got[2])
    /\ ~EmptySearch(r.got[2])

PatchSucceeded(r) == Len(r.got) >= 3 /\ CallSucceeded(r.got[3])

Updated(r) == CreateAlreadySubscribed(r) /\ SearchSucceeded(r) /\ PatchSucceeded(r)

\* the response of an answered reconcile request is the one its case calls for
RightResponse(r) ==
    /\ r.status \in {200, 400, 500}
    /\ r.status = 400 <=> FailsValidation(r.in)
    /\ (r.status = 200 /\ r.body = Obj([success |-> True, message |-> Subscribed]))
          <=> CreateSucceeded(r)
    /\ (r.status = 200 /\ r.body = Obj([success |-> True, message |-> Added]))
          <=> Updated(r)
    /\ r.status = 500 <=> ~(FailsValidation(r.in) \/ CreateSucceeded(r) \/ Updated(r))

RateIdx == 1..Len(rateReqs)

\* in this step request i stores a cache entry: its fetch returns, or it
\* arrives and stores the fallback quote without suspending
Writes(i) ==
    /\ i \in 1..Len(rateReqs')
    /\ rateReqs'[i].pc = "done"
    /\ \/ i <= Len(rateReqs) /\ rateReqs[i].pc = "fetch"
       \/ i > Len(rateReqs) /\ fredCache' # fredCache

\* the entry is missing or at least TTL old at time t
Stale(entry, t) == entry = Null \/ t - entry[2].ts >= TTL

\* C13 as stated: under every interleaving, a request stores a cache entry
\* only when the entry it replaces is at least TTL old at the moment of the
\* write; a fresh entry is never overwritten.
C13_ReplacedOnlyWhenStale ==
    [][\A i \in 1..MaxRateReqs : Writes(i) => Stale(fredCache, now)]_vars

\* C13 amended: a request stores a cache entry only if the entry it read when
\* it arrived was missing or at least TTL old at that time; the entry it
\* replaces is fresh at the moment of the write only if it was stored by
\* another request while the writer was suspended.
C13_ReplacedOnlyByRequestThatMissed ==
    [][\A i \in 1..MaxRateReqs :
          Writes(i) => /\ Stale(rateReqs'[i].seen, rateReqs'[i].now)
                       /\ Stale(fredCache, now) \/ fredCache # rateReqs'[i].seen]_vars

\* two requests both missed the empty cache and both stored an entry, the
\* second over the first's while it was still fresh
C13_Witness ==
    \E i \in RateIdx : \E j \in RateIdx :
        /\ i # j
        /\ rateReqs[i].pc = "done" /\ rateReqs[i].net = 1 /\ rateReqs[i].seen = Null
        /\ rateReqs[j].pc = "done" /\ rateReqs[j].net = 1 /\ rateReqs[j].seen = Null
        /\ now - rateReqs[i].now < TTL
        /\ now - rateReqs[j].now < TTL

\* requests i and j both missed on the same cache content, both fetched and
\* both stored a quote
Raced(i, j) ==
    /\ i # j
    /\ rateReqs[i].pc = "done" /\ rateReqs[i].net = 1
    /\ rateReqs[j].pc = "done" /\ rateReqs[j].net = 1
    /\ rateReqs[i].seen = rateReqs[j].seen

\* C14 as stated: two requests that race on an expired or empty cache and
\* both fetch and write store equivalent quotes, so that the cache content
\* after both have completed does not depend on which of them wrote last.
C14_RacingWritersStoreSameQuote ==
    \A i \in RateIdx : \A j \in RateIdx :
        Raced(i, j) => rateReqs[i].body = rateReqs[j].body

\* C14 amended: the last writer wins: every write, whatever entry it
\* replaces, leaves in the cache the quote the writer answered with, stamped
\* with the writer's arrival time; two racing writers store the same quote
\* when their fetches returned the same response.
C14_LastWriterWins ==
    /\ [][\A i \in 1..MaxRateReqs :
             Writes(i) => /\ fredCache'[2].ts = rateReqs'[i].now
                          /\ Json(fredCache'[2].payload) = rateReqs'[i].body]_vars
    /\ [](\A i \in RateIdx : \A j \in RateIdx :
             (Raced(i, j) /\ rateReqs[i].resp = rateReqs[j].resp)
                => rateReqs[i].body = rateReqs[j].body)

\* two racing writers stored different quotes and the cache holds one of them
C14_Witness ==
    \E i \in RateIdx : \E j \in RateIdx :
        /\ Raced(i, j)
        /\ rateReqs[i].body # rateReqs[j].body
        /\ Json(fredCache[2].payload) = rateReqs[j].body

\* request j missed the cache, its fetch failed (or was not attempted for lack
\* of the credential) and it stored the fallback quote
FetchFailure(j) ==
    /\ rateReqs[j].pc = "done" /\ rateReqs[j].status = 200
    /\ Stale(rateReqs[j].seen, rateReqs[j].now)
    /\ rateReqs[j].body = FallbackBody

\* in this step a GET request arrives at /api/rate
Arrives(k) ==
    /\ k = Len(rateReqs) + 1
    /\ Len(rateReqs') = k
    /\ rateReqs'[k].method = "GET"

\* the arriving request k is answered with the fallback quote at once and
\* issues no fetch
ServedFallback(k) ==
    /\ rateReqs'[k].pc = "done" /\ rateReqs'[k].status = 200
    /\ rateReqs'[k].body = FallbackBody
    /\ rateReqs'[k].net = 0

\* C15 as stated: after a fetch failure of a request that arrived at time t,
\* every GET request that arrives before t + 1 hour is answered with the
\* fallback quote and issues no upstream fetch.
C15_FallbackServedForAnHour ==
    [][\A k \in 1..MaxRaceReqs : \A j \in RateIdx :
          (Arrives(k) /\ FetchFailure(j) /\ now < rateReqs[j].now + TTL)
             => ServedFallback(k)]_vars

\* C15 amended: a failed fetch stores the fallback quote in the cache, stamped
\* with the arrival time t of the failing request; every GET request that
\* arrives before t + 1 hour while that entry is still in the cache is
\* answered with the fallback quote, issues no upstream fetch and leaves the
\* cache as it is.
C15_FallbackCachedLikeAQuote ==
    [][\A k \in 1..MaxRaceReqs :
          /\ (Writes(k) /\ rateReqs'[k].body = FallbackBody)
                => fredCache' = Obj([ts |-> rateReqs'[k].now, payload |-> FallbackQuote])
          /\ ( /\ Arrives(k)
               /\ fredCache # Null
               /\ fredCache[2].payload = FallbackQuote
               /\ now < fredCache[2].ts + TTL )
                => ServedFallback(k) /\ fredCache' = fredCache]_vars

\* with the credential set, a request that arrived after the fallback was
\* stored, within the hour, was answered with it from the cache
C15_Witness ==
    \E k \in RateIdx :
        /\ env.FRED_API_KEY = Key
        /\ rateReqs[k].pc = "done" /\ rateReqs[k].net = 0
        /\ rateReqs[k].body = FallbackBody
        /\ rateReqs[k].seen # Null /\ rateReqs[k].seen # Undefined
        /\ rateReqs[k].seen[2].payload = FallbackQuote
        /\ rateReqs[k].now > rateReqs[k].seen[2].ts

\* request i is suspended on its upstream fetch
Suspended(i) == i \in RateIdx /\ rateReqs[i].pc = "fetch"

\* request i has its response
Responded(i) == i \in RateIdx /\ rateReqs[i].pc = "done" /\ rateReqs[i].status # 0

\* C16: a request whose upstream call never returns blocks only itself: under
\* fair scheduling every other request, in flight with it or arriving later,
\* whose own upstream call returns gets its response; a request that does not
\* need the upstream is answered on arrival.
C16_StalledRequestBlocksOnlyItself ==
    /\ \A i \in 1..MaxRateReqs : [](Suspended(i) /\ i # stalled => <>Responded(i))
    /\ [](\A i \in RateIdx : Suspended(i) \/ Responded(i))

\* the stalled request is still suspended, an hour after it arrived, while a
\* request that arrived after it has fetched and was answered
C16_Witness ==
    /\ Suspended(stalled)
    /\ now >= rateReqs[stalled].now + TTL
    /\ \E i \in RateIdx : i > stalled /\ Responded(i) /\ rateReqs[i].net = 1

\* the upstream refused the call and returned an error text
Refused(resp) == resp.kind = "http" /\ ~resp.ok

\* request r took the update path and failed at its search (call 2) or at
\* its patch (call 3)
FailedUpdate(r) == r.pc = "done" /\ Len(r.got) >= 2 /\ ~Updated(r)

ErrorOf(text) == Obj([error |-> Str(text)])

\* C17 as stated: on the update path, when the search call or the patch call
\* is refused, reconcile fails with a server error whose message is the error
\* text the upstream returned for that call.
C17_UpdateFailureCarriesUpstreamText ==
    \A i \in SubIdx :
        LET r == subReqs[i]
            last == r.got[Len(r.got)]
        IN (FailedUpdate(r) /\ Refused(last) /\ last.text # <<>>)
           => r.status = 500 /\ r.body = ErrorOf(last.text)

\* C17 amended: on the update path, a failure of the search call, of the
\* handling of its response or of the patch call makes reconcile fail with a
\* server error (status 500).  A refused patch carries the error text the
\* upstream returned, or the default message when that text is empty; a
\* refused search carries the fixed message "Failed to find subscriber" and
\* not the upstream's text.
C17_UpdateFailureMessages ==
    \A i \in SubIdx :
        LET r == subReqs[i]
            last == r.got[Len(r.got)]
        IN FailedUpdate(r)
           => /\ r.status = 500
              /\ DOMAIN r.body[2] = {"error"}
              /\ (Len(r.got) = 3 /\ Refused(last) /\ last.text # <<>>)
                    => r.body = ErrorOf(last.text)
              /\ (Len(r.got) = 3 /\ Refused(last) /\ last.text = <<>>)
                    => r.body = ErrorOf(<<"Failed to subscribe. Please try again.">>)
              /\ (Len(r.got) = 2 /\ Refused(last))
                    => r.body = ErrorOf(<<"Failed to find subscriber">>)

\* a patch was refused with a text and the response carries it, and the
\* subscriber is as the search found it
C17_Witness ==
    \E i \in SubIdx :
        LET r == subReqs[i]
        IN /\ FailedUpdate(r) /\ Len(r.got) = 3
           /\ Refused(r.got[3]) /\ r.got[3].text = <<"Bad gateway">>
           /\ r.body = ErrorOf(<<"Bad gateway">>)

\* the answered GET request i fetched, and the response carried the
\* observation list obs
FetchedObs(i) ==
    LET r == rateReqs[i]
    IN /\ r.pc = "done"
       /\ r.resp.kind = "http" /\ r.resp.ok /\ r.resp.parses
       /\ r.resp.data # Null
       /\ r.resp.data[2].observations # Undefined
       /\ r.resp.data[2].observations[1] = "arr"

\* C18: the quote is built from the first observation whose value is present
\* and not ".": its number is rawPercent and its date observationDate.  When
\* that value does not read as a finite number the quote is the fallback,
\* even when a later observation carries a finite number.
C18_FirstUsableObservationDecides ==
    \A i \in GetReqs : \A vt \in ValueTable :
        LET r == rateReqs[i]
            obs == r.resp.data[2].observations[2]
        IN FetchedObs(i)
           => \A k \in 1..Len(obs) :
                (FirstUsable(obs, k) /\ obs[k][2].value = Str(vt[1]))
                   => IF IsNum(vt[2])
                      THEN /\ r.body[2].rawPercent = vt[2]
                           /\ obs[k][2].date # Undefined
                                 => r.body[2].observationDate = obs[k][2].date
                      ELSE r.body = FallbackBody

\* the first usable value was "x" and the quote is the fallback although the
\* next observation read 6.45
C18_Witness ==
    \E i \in GetReqs :
        /\ rateReqs[i].pc = "done"
        /\ rateReqs[i].resp = ObsResp(<<Entry(Str(<<"x">>), Date2),
                                        Entry(Str(<<"6", ".", "4", "5">>), Date2)>>)
        /\ rateReqs[i].body = FallbackBody

\* the answered requests that succeeded for the e-mail address
Succeeded(email) ==
    {i \in SubIdx : /\ subReqs[i].pc = "done" /\ subReqs[i].status = 200
                    /\ subReqs[i].in.email = email}

\* C19: under every interleaving of concurrent successful reconcile calls for
\* one e-mail address with distinct tags, once all calls have completed the
\* subscriber's tags contain every reconciled tag, and the settlement key
\* written by each call that took the update path is still in its metadata.
C19_ConcurrentReconcilesKeepEveryTag ==
    \A email \in {subReqs[i].in.email : i \in SubIdx} :
        ( /\ \A i \in SubIdx : subReqs[i].pc = "done"
          /\ \A i \in Succeeded(email) : \A j \in Succeeded(email) :
                i # j => subReqs[i].in.settlementId # subReqs[j].in.settlementId )
        => \A i \in Succeeded(email) :
              \E k \in 1..Len(subscribers) :
                 /\ subscribers[k].email = email
                 /\ subReqs[i].in.settlementId \in Elems(TagsOf(subscribers[k]))
                 /\ "patch" \in Elems(subReqs[i].calls)
                       => settlementKey(subReqs[i].in.settlementId)
                             \in DOMAIN MetaOf(subscribers[k])

\* C20 as stated: the capture timestamp stored in the cache never decreases
\* from one cache write to the next.
C20_TimestampNeverDecreases ==
    [][\A i \in 1..MaxRateReqs :
          (Writes(i) /\ fredCache # Null) => fredCache'[2].ts >= fredCache[2].ts]_vars

\* C20 amended: the capture timestamp stored by a write is the arrival time
\* of the writing request, never later than the clock; from one write to the
\* next it never decreases unless another request replaced the entry while
\* the writer was suspended on its fetch.
C20_TimestampIsArrivalTime ==
    [][\A i \in 1..MaxRateReqs :
          Writes(i) => /\ fredCache'[2].ts = rateReqs'[i].now
                       /\ fredCache'[2].ts <= now'
                       /\ (fredCache # Null /\ fredCache = rateReqs'[i].seen)
                             => fredCache'[2].ts >= fredCache[2].ts]_vars

\* a request that found an older entry replaced it, after its fetch returned
\* at a later time than it arrived, and the entry carries its arrival time
C20_Witness ==
    \E i \in RateIdx :
        /\ rateReqs[i].pc = "done" /\ rateReqs[i].net = 1
        /\ rateReqs[i].seen # Null
        /\ rateReqs[i].seen[2].ts < rateReqs[i].now
        /\ fredCache[2].ts = rateReqs[i].now
        /\ now > rateReqs[i].now

====
